---- MODULE Spec2Model ----
(***************************************************************************)
(* State-machine model of src/main.py (Vitrine DApp backend): the two      *)
(* in-memory tables products_db / personas_db, their JSON backing files,   *)
(* product_counter, the CESS gateway relay and the request handlers.       *)
(***************************************************************************)
EXTENDS Integers, Sequences, FiniteSets, TLC

VARIABLES products_db, product_counter, products_file,
          personas_db, personas_file,
          now, env, cess, handlers, resp, faults

vars == <<products_db, product_counter, products_file,
          personas_db, personas_file, now, env, cess, handlers, resp, faults>>

productVars == <<products_db, product_counter, products_file>>
personaVars == <<personas_db, personas_file>>

----------------------------------------------------------------------------
(* Bounds of the model *)

MaxTime == 2        \* the wall clock reads 1..MaxTime
MaxCounter == 2     \* registrations are cut off once product_counter reaches it
MaxImages == 3      \* longest image_files list of a register-blockchain request
MaxFaults == 1      \* file writes that fail in one behaviour
MaxRecords == 2     \* records in the two tables together, where Spec caps them

(* Input domains *)

Wallets == {"0xABC", "0xDEF"}
Interests == {<<"art">>, <<"art", "music">>}
NoneVal == 0 - 1                  \* Python None in a timestamp position
ClientStamp == 0                  \* a timestamp string supplied by the client
Times == 1..MaxTime

----------------------------------------------------------------------------
(* A Python dict: insertion-ordered list of key/value entries *)

DictHas(d, k) == \E i \in 1..Len(d) : d[i].k = k

DictGet(d, k) == d[CHOOSE i \in 1..Len(d) : d[i].k = k].v

DictKeys(d) == {d[i].k : i \in 1..Len(d)}

DictValues(d) == [i \in 1..Len(d) |-> d[i].v]

\* d[k] = v : an existing key keeps its position, a new key goes last
DictSet(d, k, v) ==
    IF DictHas(d, k)
    THEN [i \in 1..Len(d) |-> IF d[i].k = k THEN [k |-> k, v |-> v] ELSE d[i]]
    ELSE Append(d, [k |-> k, v |-> v])

\* del d[k]
DictDel(d, k) == SelectSeq(d, LAMBDA e : e.k # k)

\* x or y, for a value that is falsy exactly when it is None
PyOr(x, y) == IF x = NoneVal THEN y ELSE x

----------------------------------------------------------------------------
(* Backing files: open(name, "w") + json.dump, json.load *)

WriteOutcomes == {"ok", "open_failed", "dump_failed"}

NoFile == [st |-> "absent", data |-> << >>]

\* with open(name, "w") as f: json.dump(db, f)   (the exception is swallowed)
WriteJson(file, db, outcome) ==
    CASE outcome = "ok"          -> [st |-> "ok", data |-> db]
      [] outcome = "open_failed" -> file
      [] outcome = "dump_failed" -> [st |-> "corrupt", data |-> << >>]

\* the failed writes so far, after a handler whose write (if it made one) ended wo
Disk(attempted, wo) ==
    /\ faults' = IF attempted /\ wo # "ok" THEN faults + 1 ELSE faults
    /\ faults' <= MaxFaults

save_products_to_file(file, db, outcome) == WriteJson(file, db, outcome)

save_personas_to_file(file, db, outcome) == WriteJson(file, db, outcome)

\* a start that does not read personas.json
load_personas_skips_file(file) == << >>

\* load_personas_from_file: the table a fresh process holds after it
load_personas_from_file(file) ==
    IF file.st = "ok" THEN file.data ELSE << >>

----------------------------------------------------------------------------
(* Exceptions, and the except clauses that close each handler *)

Returned(v) == [kind |-> "return", value |-> v]
HTTPException(code) == [kind |-> "raise", type |-> "HTTPException", status |-> code]
TimeoutException == [kind |-> "raise", type |-> "TimeoutException", status |-> 0]
OtherException == [kind |-> "raise", type |-> "Exception", status |-> 0]
JSONDecodeError == [kind |-> "raise", type |-> "JSONDecodeError", status |-> 0]

\* a handler without its "except HTTPException: raise" clause
CatchAll500(exc) == 500

\* except HTTPException: raise / except Exception: raise HTTPException(500)
ReraiseHttpElse500(exc) ==
    IF exc.type = "HTTPException" THEN exc.status ELSE 500

\* except httpx.TimeoutException: 504 / except Exception: 500
\* (HTTPException is an Exception, so the second clause takes it too)
Timeout504Else500(exc) ==
    IF exc.type = "TimeoutException" THEN 504 ELSE 500

\* except json.JSONDecodeError: 400 / except Exception: 500
JsonError400Else500(exc) ==
    IF exc.type = "JSONDecodeError" THEN 400 ELSE 500

----------------------------------------------------------------------------
(* Persona handlers *)

PersonaBodies ==
    [wallet_address : Wallets, interests : Interests,
     browsing_history : {"{}"}, preferences : {"{}"}, demographics : {NoneVal},
     updated_at : {NoneVal, ClientStamp}]

\* persona.dict() with created_at / updated_at as create_persona sets them
CreatedPersona(body, t) ==
    [wallet_address |-> body.wallet_address, interests |-> body.interests,
     browsing_history |-> body.browsing_history, preferences |-> body.preferences,
     demographics |-> body.demographics,
     created_at |-> t, updated_at |-> PyOr(body.updated_at, t)]

\* update_persona taking created_at from the clock instead of the stored record
UpdatedPersonaRestamped(body, old, t) ==
    [wallet_address |-> body.wallet_address, interests |-> body.interests,
     browsing_history |-> body.browsing_history, preferences |-> body.preferences,
     demographics |-> body.demographics,
     created_at |-> t, updated_at |-> t]

\* persona.dict() with created_at / updated_at as update_persona sets them
UpdatedPersona(body, old, t) ==
    [wallet_address |-> body.wallet_address, interests |-> body.interests,
     browsing_history |-> body.browsing_history, preferences |-> body.preferences,
     demographics |-> body.demographics,
     created_at |-> old.created_at, updated_at |-> t]

PersonaExists(db, w) == DictHas(db, w)

\* create_persona without the membership test of line 560
create_persona_overwrites(body, wo) ==
    /\ personas_db' = DictSet(personas_db, body.wallet_address,
                              CreatedPersona(body, now))
    /\ personas_file' = save_personas_to_file(personas_file, personas_db', wo)
    /\ resp' = [op |-> "create_persona", status |-> 200,
                key |-> body.wallet_address, write |-> wo]
    /\ Disk(TRUE, wo)
    /\ UNCHANGED <<productVars, now, env, cess, handlers>>

create_persona(body, wo) ==
    /\ IF PersonaExists(personas_db, body.wallet_address)
       THEN /\ resp' = [op |-> "create_persona",
                        status |-> ReraiseHttpElse500(HTTPException(409)),
                        key |-> body.wallet_address, write |-> "none"]
            /\ UNCHANGED personaVars
       ELSE /\ personas_db' = DictSet(personas_db, body.wallet_address,
                                      CreatedPersona(body, now))
            /\ personas_file' = save_personas_to_file(personas_file, personas_db', wo)
            /\ resp' = [op |-> "create_persona", status |-> 200,
                        key |-> body.wallet_address, write |-> wo]
    /\ Disk(~PersonaExists(personas_db, body.wallet_address), wo)
    /\ UNCHANGED <<productVars, now, env, cess, handlers>>

update_persona(w, body, wo) ==
    /\ IF ~PersonaExists(personas_db, w)
       THEN /\ resp' = [op |-> "update_persona",
                        status |-> ReraiseHttpElse500(HTTPException(404)), key |-> w,
                        write |-> "none"]
            /\ UNCHANGED personaVars
       ELSE /\ personas_db' = DictSet(personas_db, w,
                                      UpdatedPersona(body, DictGet(personas_db, w), now))
            /\ personas_file' = save_personas_to_file(personas_file, personas_db', wo)
            /\ resp' = [op |-> "update_persona", status |-> 200, key |-> w,
                        write |-> wo]
    /\ Disk(PersonaExists(personas_db, w), wo)
    /\ UNCHANGED <<productVars, now, env, cess, handlers>>

get_persona(w) ==
    /\ resp' = IF ~PersonaExists(personas_db, w)
               THEN [op |-> "get_persona",
                     status |-> ReraiseHttpElse500(HTTPException(404)),
                     key |-> w, write |-> "none"]
               ELSE [op |-> "get_persona", status |-> 200, key |-> w, write |-> "none",
                     body |-> DictGet(personas_db, w)]
    /\ UNCHANGED <<productVars, personaVars, now, env, cess, handlers, faults>>

delete_persona(w, wo) ==
    /\ IF ~PersonaExists(personas_db, w)
       THEN /\ resp' = [op |-> "delete_persona",
                        status |-> ReraiseHttpElse500(HTTPException(404)), key |-> w,
                        write |-> "none"]
            /\ UNCHANGED personaVars
       ELSE /\ personas_db' = DictDel(personas_db, w)
            /\ personas_file' = save_personas_to_file(personas_file, personas_db', wo)
            /\ resp' = [op |-> "delete_persona", status |-> 200, key |-> w,
                        write |-> wo]
    /\ Disk(PersonaExists(personas_db, w), wo)
    /\ UNCHANGED <<productVars, now, env, cess, handlers>>

----------------------------------------------------------------------------
(* Blob relay: upload_file_to_cess *)

EnvVars == {"CESS_ACCOUNT", "CESS_MESSAGE", "CESS_SIGNATURE",
            "CESS_TERRITORY", "CESS_GATEWAY_URL"}

\* os.getenv(v) is truthy
Configured(e, v) == v \in e

\* the variables line 184 tests with all([...])
CheckedCredentials == {"CESS_ACCOUNT", "CESS_MESSAGE", "CESS_SIGNATURE"}

\* what the gateway does with one PUT /file
PutReplies == {"200_fid", "200_nofid", "non200", "timeout", "timeout_stored"}

\* what the HTTP client does with a header whose value is None
NoneHeader == {"raises", "sends"}

\* response_data.get("fid"): an identifier the gateway chose for the blob
CessFid(content) == <<"fid", content>>
\* hashlib.sha256(file_content).hexdigest()
Sha256(content) == <<"sha256", content>>

\* The outcome of one call: what the caller gets (out), whether a request left
\* for the gateway (sent) and whether the gateway now holds the blob (stored).
upload_file_to_cess(e, content, reply, hdr) ==
    IF ~(\A v \in CheckedCredentials : Configured(e, v))
    THEN [out |-> HTTPException(500), detail |-> "CESS credentials not configured",
          sent |-> FALSE, stored |-> FALSE]
    ELSE IF ~Configured(e, "CESS_GATEWAY_URL")
    THEN \* None + "/file"
         [out |-> OtherException, detail |-> "TypeError",
          sent |-> FALSE, stored |-> FALSE]
    ELSE IF ~Configured(e, "CESS_TERRITORY") /\ hdr = "raises"
    THEN [out |-> OtherException, detail |-> "header value None",
          sent |-> FALSE, stored |-> FALSE]
    ELSE CASE reply = "200_fid" ->
                [out |-> Returned(CessFid(content)), detail |-> "",
                 sent |-> TRUE, stored |-> TRUE]
           [] reply = "200_nofid" ->
                [out |-> Returned(Sha256(content)), detail |-> "",
                 sent |-> TRUE, stored |-> TRUE]
           [] reply = "non200" ->
                [out |-> HTTPException(503), detail |-> "CESS upload failed",
                 sent |-> TRUE, stored |-> FALSE]
           [] reply = "timeout" ->
                [out |-> TimeoutException, detail |-> "", sent |-> TRUE,
                 stored |-> FALSE]
           [] reply = "timeout_stored" ->
                [out |-> TimeoutException, detail |-> "", sent |-> TRUE,
                 stored |-> TRUE]

\* the gateway's files (by name) after the call
CessAfter(store, filename, r) == IF r.stored THEN store \cup {filename} ELSE store

\* uploaded files: name and bytes
ImageFiles == {[filename |-> "a.png", content |-> "bytes_a"],
               [filename |-> "b.png", content |-> "bytes_b"]}

\* POST /api/upload-to-cess
upload_to_cess(file, reply, hdr) ==
    LET r == upload_file_to_cess(env, file.content, reply, hdr) IN
    /\ cess' = CessAfter(cess, file.filename, r)
    /\ resp' = IF r.out.kind = "return"
               THEN [op |-> "upload_to_cess", status |-> 200, write |-> "none",
                     fid |-> r.out.value, sent |-> r.sent, gateway |-> reply,
                     detail |-> r.detail]
               ELSE [op |-> "upload_to_cess", status |-> Timeout504Else500(r.out),
                     write |-> "none", sent |-> r.sent, gateway |-> reply,
                     detail |-> r.detail]
    /\ UNCHANGED <<productVars, personaVars, now, env, handlers, faults>>

\* what the gateway does with one GET /file/{fid}
GetReplies == {"200_json", "200_text", "non200", "timeout"}

\* the body of get_product_metadata's try block
FetchMetadata(e, reply) ==
    IF ~Configured(e, "CESS_GATEWAY_URL")
    THEN OtherException          \* "None/file/..." is no URL
    ELSE CASE reply = "200_json" -> Returned([parsed |-> "body"])
           [] reply = "200_text" -> Returned([content |-> "body", type |-> "text"])
           [] reply = "non200"   -> HTTPException(404)
           [] reply = "timeout"  -> TimeoutException

\* GET /api/products/metadata/{metadata_fid}
get_product_metadata(reply) ==
    LET r == FetchMetadata(env, reply) IN
    /\ resp' = IF r.kind = "return"
               THEN [op |-> "get_product_metadata", status |-> 200, write |-> "none",
                     body |-> r.value, gateway |-> reply,
                     url |-> Configured(env, "CESS_GATEWAY_URL")]
               ELSE [op |-> "get_product_metadata", status |-> Timeout504Else500(r),
                     write |-> "none", gateway |-> reply,
                     url |-> Configured(env, "CESS_GATEWAY_URL")]
    /\ UNCHANGED <<productVars, personaVars, now, env, cess, handlers, faults>>

----------------------------------------------------------------------------
(* Product identifiers: f"prod_{product_counter}_{int(timestamp)}" *)

\* the identifier, as the list of its "_"-separated parts
ProductId(n, t) == <<"prod", n, t>>

\* int(pid.split("_")[1]) succeeds
KeyParses(pid) == Len(pid) >= 2 /\ pid[2] \in Nat

\* int(pid.split("_")[1])
KeyCounter(pid) == pid[2]

SetMax(S) == CHOOSE m \in S : \A x \in S : x <= m

\* load_products_from_file without lines 147-149
load_products_keeps_counter(file) ==
    IF file.st # "ok" THEN [db |-> << >>, counter |-> 0]
    ELSE [db |-> file.data, counter |-> 0]

\* load_products_from_file in a fresh process (products_db = {}, product_counter = 0):
\* the table and the counter it leaves
load_products_from_file(file) ==
    IF file.st # "ok"
    THEN [db |-> << >>, counter |-> 0]               \* absent, or json.load raises
    ELSE IF file.data = << >>
    THEN [db |-> << >>, counter |-> 0]
    ELSE IF \E k \in DictKeys(file.data) : ~KeyParses(k)
    THEN [db |-> << >>, counter |-> 0]               \* int() / [1] raises
    ELSE [db |-> file.data,
          counter |-> SetMax({KeyCounter(k) : k \in DictKeys(file.data)})]

----------------------------------------------------------------------------
(* Product handlers *)

Categories == {"art", "books"}
Sellers == {"0xS1"}
Deliverers == {"0xD1"}
Names == {"lamp"}
Prices == {2}
Commissions == {500}
ContractIds == {7}
ChainStatuses == {"active", "sold"}

\* the image_files lists a client may submit
ImageLists == UNION {[1..n -> ImageFiles] : n \in 1..MaxImages}

RegisterRequests ==
    [name : Names, description : {"d"}, category : Categories, price_eth : Prices,
     seller_address : Sellers, deliverer_address : Deliverers,
     image_files : ImageLists, creator_commission_bps : Commissions,
     attributes : {"{}", "{not json"}]

\* json.loads(attributes)
AttributesParse(text) == text = "{}"

\* ProductMetadata(...).json(): the document uploaded as the metadata blob
MetadataJson(req, image_fids, t) ==
    <<"json", [name |-> req.name, description |-> req.description,
               category |-> req.category, images |-> image_fids,
               attributes |-> "{}", created_at |-> t]>>

\* f"{name}_metadata.json"
MetadataFilename(name) == name \o "_metadata.json"

\* product_data of register_product_blockchain
BlockchainProduct(pid, req, image_fids, metadata_fid, t) ==
    [id |-> pid, name |-> req.name, description |-> req.description,
     price |-> req.price_eth, category |-> req.category, images |-> image_fids,
     seller |-> req.seller_address, created_at |-> t,
     status |-> "pending_blockchain", metadata_fid |-> metadata_fid,
     deliverer_address |-> req.deliverer_address,
     creator_commission_bps |-> req.creator_commission_bps]

Handlers == {"h1", "h2"}

Idle == [pc |-> "idle"]

\* register_product_blockchain up to its first await
reg_begin(h, req) ==
    /\ handlers[h].pc = "idle"
    /\ IF ~AttributesParse(req.attributes)
       THEN /\ resp' = [op |-> "register_product_blockchain",
                        status |-> JsonError400Else500(JSONDecodeError),
                        write |-> "none", h |-> h]
            /\ UNCHANGED handlers
       ELSE /\ handlers' = [handlers EXCEPT ![h] =
                               [pc |-> "images", req |-> req, image_fids |-> << >>]]
            /\ resp' = [op |-> "suspended", status |-> 0, write |-> "none", h |-> h]
    /\ UNCHANGED <<productVars, personaVars, now, env, cess, faults>>

\* reg_upload_image putting each new identifier at the front of image_fids
reg_upload_image_prepends(h, reply, hdr) ==
    /\ handlers[h].pc = "images"
    /\ LET st == handlers[h]
           file == st.req.image_files[Len(st.image_fids) + 1]
           r == upload_file_to_cess(env, file.content, reply, hdr)
       IN /\ cess' = CessAfter(cess, file.filename, r)
          /\ IF r.out.kind = "return"
             THEN LET fids == <<r.out.value>> \o st.image_fids IN
                  /\ handlers' = [handlers EXCEPT ![h] =
                        [pc |-> IF Len(fids) = Len(st.req.image_files)
                                THEN "metadata" ELSE "images",
                         req |-> st.req, image_fids |-> fids]]
                  /\ resp' = [op |-> "suspended", status |-> 0, write |-> "none",
                              h |-> h, gateway |-> reply]
             ELSE /\ handlers' = [handlers EXCEPT ![h] = Idle]
                  /\ resp' = [op |-> "register_product_blockchain",
                              status |-> JsonError400Else500(r.out),
                              write |-> "none", h |-> h, gateway |-> reply,
                              uploaded |-> Len(st.image_fids),
                              submitted |-> Len(st.req.image_files)]
    /\ UNCHANGED <<productVars, personaVars, now, env, faults>>

\* one turn of the image loop: await upload_file_to_cess(...), then append
reg_upload_image(h, reply, hdr) ==
    /\ handlers[h].pc = "images"
    /\ LET st == handlers[h]
           file == st.req.image_files[Len(st.image_fids) + 1]
           r == upload_file_to_cess(env, file.content, reply, hdr)
       IN /\ cess' = CessAfter(cess, file.filename, r)
          /\ IF r.out.kind = "return"
             THEN LET fids == Append(st.image_fids, r.out.value) IN
                  /\ handlers' = [handlers EXCEPT ![h] =
                        [pc |-> IF Len(fids) = Len(st.req.image_files)
                                THEN "metadata" ELSE "images",
                         req |-> st.req, image_fids |-> fids]]
                  /\ resp' = [op |-> "suspended", status |-> 0, write |-> "none",
                              h |-> h, gateway |-> reply]
             ELSE /\ handlers' = [handlers EXCEPT ![h] = Idle]
                  /\ resp' = [op |-> "register_product_blockchain",
                              status |-> JsonError400Else500(r.out),
                              write |-> "none", h |-> h, gateway |-> reply,
                              uploaded |-> Len(st.image_fids),
                              submitted |-> Len(st.req.image_files)]
    /\ UNCHANGED <<productVars, personaVars, now, env, faults>>

\* reg_finish with the identifier allocated before the metadata upload
reg_finish_allocates_first(h, reply, hdr, wo) ==
    /\ handlers[h].pc = "metadata"
    /\ product_counter < MaxCounter
    /\ LET st == handlers[h]
           doc == MetadataJson(st.req, st.image_fids, now)
           r == upload_file_to_cess(env, doc, reply, hdr)
       IN /\ cess' = CessAfter(cess, MetadataFilename(st.req.name), r)
          /\ handlers' = [handlers EXCEPT ![h] = Idle]
          /\ IF r.out.kind = "return"
             THEN LET pid == ProductId(product_counter + 1, now) IN
                  /\ product_counter' = product_counter + 1
                  /\ products_db' = DictSet(products_db, pid,
                        BlockchainProduct(pid, st.req, st.image_fids, r.out.value, now))
                  /\ products_file' =
                        save_products_to_file(products_file, products_db', wo)
                  /\ resp' = [op |-> "register_product_blockchain", status |-> 200,
                              write |-> wo, h |-> h, gateway |-> reply,
                              product_id |-> pid]
             ELSE /\ product_counter' = product_counter + 1
                  /\ UNCHANGED <<products_db, products_file>>
                  /\ resp' = [op |-> "register_product_blockchain",
                              status |-> JsonError400Else500(r.out),
                              write |-> "none", h |-> h, gateway |-> reply,
                              uploaded |-> Len(st.image_fids),
                              submitted |-> Len(st.req.image_files)]
          /\ Disk(r.out.kind = "return", wo)
    /\ UNCHANGED <<personaVars, now, env>>

\* reg_finish with an identifier built from the clock alone, prod_0_<t>
reg_finish_clock_id(h, reply, hdr, wo) ==
    /\ handlers[h].pc = "metadata"
    /\ product_counter < MaxCounter
    /\ LET st == handlers[h]
           doc == MetadataJson(st.req, st.image_fids, now)
           r == upload_file_to_cess(env, doc, reply, hdr)
       IN /\ cess' = CessAfter(cess, MetadataFilename(st.req.name), r)
          /\ handlers' = [handlers EXCEPT ![h] = Idle]
          /\ IF r.out.kind = "return"
             THEN LET pid == ProductId(0, now) IN
                  /\ product_counter' = product_counter + 1
                  /\ products_db' = DictSet(products_db, pid,
                        BlockchainProduct(pid, st.req, st.image_fids, r.out.value, now))
                  /\ products_file' =
                        save_products_to_file(products_file, products_db', wo)
                  /\ resp' = [op |-> "register_product_blockchain", status |-> 200,
                              write |-> wo, h |-> h, gateway |-> reply,
                              product_id |-> pid]
             ELSE /\ UNCHANGED productVars
                  /\ resp' = [op |-> "register_product_blockchain",
                              status |-> JsonError400Else500(r.out),
                              write |-> "none", h |-> h, gateway |-> reply,
                              uploaded |-> Len(st.image_fids),
                              submitted |-> Len(st.req.image_files)]
          /\ Disk(r.out.kind = "return", wo)
    /\ UNCHANGED <<personaVars, now, env>>

\* the metadata upload and, once it returns, the rest of the handler
reg_finish(h, reply, hdr, wo) ==
    /\ handlers[h].pc = "metadata"
    /\ product_counter < MaxCounter
    /\ LET st == handlers[h]
           doc == MetadataJson(st.req, st.image_fids, now)
           r == upload_file_to_cess(env, doc, reply, hdr)
       IN /\ cess' = CessAfter(cess, MetadataFilename(st.req.name), r)
          /\ handlers' = [handlers EXCEPT ![h] = Idle]
          /\ IF r.out.kind = "return"
             THEN LET pid == ProductId(product_counter + 1, now) IN
                  /\ product_counter' = product_counter + 1
                  /\ products_db' = DictSet(products_db, pid,
                        BlockchainProduct(pid, st.req, st.image_fids, r.out.value, now))
                  /\ products_file' =
                        save_products_to_file(products_file, products_db', wo)
                  /\ resp' = [op |-> "register_product_blockchain", status |-> 200,
                              write |-> wo, h |-> h, gateway |-> reply,
                              product_id |-> pid]
             ELSE /\ UNCHANGED productVars
                  /\ resp' = [op |-> "register_product_blockchain",
                              status |-> JsonError400Else500(r.out),
                              write |-> "none", h |-> h, gateway |-> reply,
                              uploaded |-> Len(st.image_fids),
                              submitted |-> Len(st.req.image_files)]
          /\ Disk(r.out.kind = "return", wo)
    /\ UNCHANGED <<personaVars, now, env>>

LegacyProducts ==
    [name : Names, description : {"d"}, price : Prices, category : Categories,
     images : {<<"fid0">>}, seller : Sellers, created_at : {NoneVal, ClientStamp}]

\* product_data of register_product
LegacyProduct(pid, product, t) ==
    [id |-> pid, name |-> product.name, description |-> product.description,
     price |-> product.price, category |-> product.category,
     images |-> product.images, seller |-> product.seller,
     created_at |-> PyOr(product.created_at, t), status |-> "active"]

\* POST /api/products/register
register_product(product, wo) ==
    /\ product_counter < MaxCounter
    /\ LET pid == ProductId(product_counter + 1, now) IN
       /\ product_counter' = product_counter + 1
       /\ products_db' = DictSet(products_db, pid, LegacyProduct(pid, product, now))
       /\ products_file' = save_products_to_file(products_file, products_db', wo)
       /\ resp' = [op |-> "register_product", status |-> 200, write |-> wo,
                   product_id |-> pid]
    /\ Disk(TRUE, wo)
    /\ UNCHANGED <<personaVars, now, env, cess, handlers>>

ProductIds == {ProductId(n, t) : n \in 1..MaxCounter, t \in Times}

ProductExists(db, pid) == DictHas(db, pid)

\* products_db[pid]["contract_product_id"] = c ; products_db[pid]["status"] = s
WithChainStatus(p, c, s) ==
    [f \in DOMAIN p \cup {"contract_product_id", "status"} |->
        IF f = "contract_product_id" THEN c
        ELSE IF f = "status" THEN s ELSE p[f]]

\* PUT /api/products/{product_id}/update-blockchain-status
update_product_blockchain_status(pid, c, s, wo) ==
    /\ IF ~ProductExists(products_db, pid)
       THEN /\ resp' = [op |-> "update_product_blockchain_status",
                        status |-> ReraiseHttpElse500(HTTPException(404)),
                        write |-> "none", key |-> pid]
            /\ UNCHANGED productVars
       ELSE /\ products_db' = DictSet(products_db, pid,
                                 WithChainStatus(DictGet(products_db, pid), c, s))
            /\ products_file' = save_products_to_file(products_file, products_db', wo)
            /\ UNCHANGED product_counter
            /\ resp' = [op |-> "update_product_blockchain_status", status |-> 200,
                        write |-> wo, key |-> pid]
    /\ Disk(ProductExists(products_db, pid), wo)
    /\ UNCHANGED <<personaVars, now, env, cess, handlers>>

\* GET /api/products/{product_id}
get_product(pid) ==
    /\ resp' = IF ~ProductExists(products_db, pid)
               THEN [op |-> "get_product",
                     status |-> ReraiseHttpElse500(HTTPException(404)),
                     write |-> "none", key |-> pid]
               ELSE [op |-> "get_product", status |-> 200, write |-> "none",
                     key |-> pid, body |-> DictGet(products_db, pid)]
    /\ UNCHANGED <<productVars, personaVars, now, env, cess, handlers, faults>>

----------------------------------------------------------------------------
(* Query layer: GET /api/products *)

Min(a, b) == IF a < b THEN a ELSE b
Max(a, b) == IF a > b THEN a ELSE b

\* s[lo:hi] of a Python list: 0-based, negative indices count from the end
PySlice(s, lo, hi) ==
    LET n == Len(s)
        norm(i) == IF i < 0 THEN Max(0, i + n) ELSE Min(i, n)
    IN SubSeq(s, norm(lo) + 1, norm(hi))

NoFilter == ""      \* a query parameter left out (None) or empty: falsy

MaxLimit == 2
MaxOffset == 2
Limits == (0 - 1)..MaxLimit       \* limit and offset are plain ints: no lower bound
Offsets == (0 - 1)..MaxOffset

\* [p for p in ps if p[field] == val]; p[field] raises KeyError on a record without it
FilterStrict(ps, field, val) ==
    IF \E i \in 1..Len(ps) : field \notin DOMAIN ps[i]
    THEN OtherException
    ELSE Returned(SelectSeq(ps, LAMBDA p : p[field] = val))

\* [p for p in ps if p.get(field) == val]
FilterGet(ps, field, val) ==
    SelectSeq(ps, LAMBDA p : field \in DOMAIN p /\ p[field] = val)

\* filtered_products after the three filters, or the exception raised on the way
FilteredProducts(db, category, seller, status) ==
    LET all == DictValues(db)
        byCat == IF category # NoFilter
                 THEN FilterStrict(all, "category", category) ELSE Returned(all)
        bySel == IF byCat.kind = "raise" THEN byCat
                 ELSE IF seller # NoFilter
                 THEN FilterStrict(byCat.value, "seller", seller) ELSE byCat
    IN IF bySel.kind = "raise" THEN bySel
       ELSE IF status # NoFilter
       THEN Returned(FilterGet(bySel.value, "status", status)) ELSE bySel

\* a page counted from offset + 1
PageFromOne(filtered, limit, offset) == PySlice(filtered, offset + 1, offset + limit)

\* filtered_products[offset:offset + limit]
Page(filtered, limit, offset) == PySlice(filtered, offset, offset + limit)

get_products(category, seller, status, limit, offset) ==
    LET f == FilteredProducts(products_db, category, seller, status) IN
    /\ resp' = IF f.kind = "raise"
               THEN [op |-> "get_products", status |-> 500, write |-> "none"]
               ELSE [op |-> "get_products", status |-> 200, write |-> "none",
                     products |-> Page(f.value, limit, offset),
                     total |-> Len(f.value), limit |-> limit, offset |-> offset,
                     filters |-> <<category, seller, status>>]
    /\ UNCHANGED <<productVars, personaVars, now, env, cess, handlers, faults>>

----------------------------------------------------------------------------
(* Administration: GET /api/admin/products/cleanup *)

RequiredFields == {"name", "price", "seller"}

\* a test that passes a record holding any one of the required fields
LacksEveryRequired(p) == RequiredFields \cap DOMAIN p = {}

\* not all(key in product_data for key in ["name", "price", "seller"])
LacksRequired(p) == ~(RequiredFields \subseteq DOMAIN p)

\* the ids the first loop collects, in table order
products_to_remove(db) ==
    LET bad == SelectSeq(db, LAMBDA e : LacksRequired(e.v))
    IN [i \in 1..Len(bad) |-> bad[i].k]

\* for product_id in products_to_remove: del products_db[product_id]
RECURSIVE DelEach(_, _)
DelEach(db, ids) ==
    IF ids = << >> THEN db ELSE DelEach(DictDel(db, Head(ids)), Tail(ids))

\* cleanup_products saving before it deletes
cleanup_products_saves_first(wo) ==
    LET ids == products_to_remove(products_db)
        cleaned == Len(ids)
        kept == DelEach(products_db, ids)
    IN /\ products_db' = kept
       /\ products_file' = IF cleaned > 0
                           THEN save_products_to_file(products_file, products_db, wo)
                           ELSE products_file
       /\ UNCHANGED product_counter
       /\ resp' = [op |-> "cleanup_products", status |-> 200,
                   write |-> IF cleaned > 0 THEN wo ELSE "none",
                   cleaned_count |-> cleaned, remaining_products |-> Len(kept)]
       /\ Disk(cleaned > 0, wo)
       /\ UNCHANGED <<personaVars, now, env, cess, handlers>>

cleanup_products(wo) ==
    LET ids == products_to_remove(products_db)
        cleaned == Len(ids)
        kept == DelEach(products_db, ids)
    IN /\ products_db' = kept
       /\ products_file' = IF cleaned > 0
                           THEN save_products_to_file(products_file, products_db', wo)
                           ELSE products_file
       /\ UNCHANGED product_counter
       /\ resp' = [op |-> "cleanup_products", status |-> 200,
                   write |-> IF cleaned > 0 THEN wo ELSE "none",
                   cleaned_count |-> cleaned, remaining_products |-> Len(kept)]
       /\ Disk(cleaned > 0, wo)
       /\ UNCHANGED <<personaVars, now, env, cess, handlers>>

----------------------------------------------------------------------------
(* Process lifetime *)

\* the wall clock moves on
Tick ==
    /\ now < MaxTime
    /\ now' = now + 1
    /\ UNCHANGED <<productVars, personaVars, env, cess, handlers, faults, resp>>

\* no response is on its way out: the event loop takes the next event
Ready == [op |-> "none", status |-> 0, write |-> "none"]

\* the response of the handler that just ran leaves the server
Respond ==
    /\ resp # Ready
    /\ resp' = Ready
    /\ UNCHANGED <<productVars, personaVars, now, env, cess, handlers, faults>>

\* shutdown_event (when the process stops gracefully), then a new process and
\* its startup_event; a killed process skips the flush
Restart(graceful, wo1, wo2) ==
    /\ products_file' = IF graceful
                        THEN save_products_to_file(products_file, products_db, wo1)
                        ELSE products_file
    /\ personas_file' = IF graceful
                        THEN save_personas_to_file(personas_file, personas_db, wo2)
                        ELSE personas_file
    /\ LET ld == load_products_from_file(products_file') IN
       /\ products_db' = ld.db
       /\ product_counter' = ld.counter
    /\ personas_db' = load_personas_from_file(personas_file')
    /\ handlers' = [h \in Handlers |-> Idle]
    /\ resp' = [op |-> "restart", status |-> 0, write |-> "none",
                graceful |-> graceful]
    /\ faults' = faults + (IF graceful /\ wo1 # "ok" THEN 1 ELSE 0)
                        + (IF graceful /\ wo2 # "ok" THEN 1 ELSE 0)
    /\ faults' <= MaxFaults
    /\ UNCHANGED <<now, env, cess>>

\* a products.json left by an earlier deployment: a record without "seller"
OldRecord ==
    [id |-> ProductId(1, 1), name |-> "lamp", description |-> "d", price |-> 2,
     category |-> "art", images |-> << >>, created_at |-> ClientStamp,
     status |-> "active"]

OldFile == [st |-> "ok", data |-> <<[k |-> ProductId(1, 1), v |-> OldRecord]>>]

\* a products.json with a key that is not prod_<n>_<t>
BadKeyFile ==
    [st |-> "ok",
     data |-> <<[k |-> <<"legacy">>, v |-> [OldRecord EXCEPT !.id = <<"legacy">>]]>>]

InitialProductFiles == {NoFile, OldFile, BadKeyFile}

Envs == SUBSET EnvVars

Init ==
    /\ products_file \in InitialProductFiles
    /\ personas_file = NoFile
    /\ products_db = load_products_from_file(products_file).db
    /\ product_counter = load_products_from_file(products_file).counter
    /\ personas_db = load_personas_from_file(personas_file)
    /\ now = 1
    /\ env \in Envs
    /\ cess = {}
    /\ handlers = [h \in Handlers |-> Idle]
    /\ resp = Ready
    /\ faults = 0

(* The requests clients send, by area; each takes the sets its inputs are
   drawn from, so that a specification can run an area on fewer inputs *)

PersonaCreate(bodies, outcomes) ==
    \E b \in bodies, wo \in outcomes : create_persona(b, wo)

PersonaRest(bodies, outcomes) ==
    \/ \E w \in Wallets, b \in bodies, wo \in outcomes : update_persona(w, b, wo)
    \/ \E w \in Wallets : get_persona(w)
    \/ \E w \in Wallets, wo \in outcomes : delete_persona(w, wo)

PipelineNext(hs, reqs, replies, outcomes) ==
    \/ \E h \in hs, req \in reqs : reg_begin(h, req)
    \/ \E h \in hs, reply \in replies, hdr \in NoneHeader :
          reg_upload_image(h, reply, hdr)
    \/ \E h \in hs, reply \in replies, hdr \in NoneHeader, wo \in outcomes :
          reg_finish(h, reply, hdr, wo)

LegacyRegister(legacy, outcomes) ==
    \E p \in legacy, wo \in outcomes : register_product(p, wo)

ProductRest(statuses, outcomes) ==
    \/ \E pid \in ProductIds, c \in ContractIds, s \in statuses, wo \in outcomes :
          update_product_blockchain_status(pid, c, s, wo)
    \/ \E pid \in ProductIds : get_product(pid)
    \/ \E wo \in outcomes : cleanup_products(wo)

QueryNext(limits, offsets) ==
    \E c \in {NoFilter} \cup Categories, sl \in {NoFilter} \cup Sellers,
       st \in {NoFilter, "active", "pending_blockchain"},
       l \in limits, o \in offsets : get_products(c, sl, st, l, o)

RelayNext(files, replies) ==
    \/ \E f \in files, reply \in replies, hdr \in NoneHeader :
          upload_to_cess(f, reply, hdr)
    \/ \E reply \in GetReplies : get_product_metadata(reply)

LifeNext(outcomes) ==
    \/ Tick
    \/ \E g \in BOOLEAN, wo1 \in outcomes, wo2 \in outcomes : Restart(g, wo1, wo2)

----------------------------------------------------------------------------
(* Specifications *)

\* every credential configured, no products.json from an earlier deployment
InitFresh == Init /\ env = EnvVars /\ products_file = NoFile

\* every credential configured
InitConfigured == Init /\ env = EnvVars

FileA == [filename |-> "a.png", content |-> "bytes_a"]

\* one well-formed request with a single image
OneRequest ==
    {r \in RegisterRequests : r.category = "art" /\ r.image_files = <<FileA>>}

\* image lists a, ab, aba, ...: no file twice in a row
Alternating ==
    {l \in ImageLists : l[1] = FileA /\ \A i \in 1..(Len(l) - 1) : l[i] # l[i + 1]}

AlternatingRequests ==
    {r \in RegisterRequests : r.category = "art" /\ r.image_files \in Alternating}

OneLegacy == {p \in LegacyProducts : p.category = "books" /\ p.created_at = NoneVal}

PlainLegacy == {p \in LegacyProducts : p.created_at = NoneVal}

PlainBodies == {b \in PersonaBodies : b.interests = <<"art">> /\ b.updated_at = NoneVal}

\* the Persona Store
NextPersona ==
    \/ resp = Ready /\ PersonaCreate(PersonaBodies, WriteOutcomes)
    \/ resp = Ready /\ PersonaRest(PersonaBodies, WriteOutcomes)
    \/ resp = Ready /\ LifeNext(WriteOutcomes)
    \/ Respond

SpecPersona == InitFresh /\ [][NextPersona]_vars

\* the Product Store over process restarts, one request at a time
NextProduct ==
    \/ resp = Ready /\ PipelineNext({"h1"}, OneRequest, {"200_fid", "non200"},
                                    WriteOutcomes)
    \/ resp = Ready /\ LegacyRegister(OneLegacy, WriteOutcomes)
    \/ resp = Ready /\ ProductRest(ChainStatuses, WriteOutcomes)
    \/ resp = Ready /\ LifeNext(WriteOutcomes)
    \/ Respond

SpecProduct == InitConfigured /\ [][NextProduct]_vars

\* the registration pipeline against every gateway behaviour
NextPipeline ==
    \/ resp = Ready /\ PipelineNext({"h1"}, AlternatingRequests, PutReplies,
                                    WriteOutcomes)
    \/ resp = Ready /\ LegacyRegister(OneLegacy, {"ok"})
    \/ resp = Ready /\ Tick
    \/ Respond

\* configured, or without a credential, or without the gateway address
InitPipeline ==
    /\ Init
    /\ products_file = NoFile
    /\ env \in {EnvVars, EnvVars \ {"CESS_SIGNATURE"}, EnvVars \ {"CESS_GATEWAY_URL"}}

SpecPipeline == InitPipeline /\ [][NextPipeline]_vars

\* the query layer
NextQuery ==
    \/ resp = Ready /\ PipelineNext({"h1"}, OneRequest, {"200_fid"}, {"ok"})
    \/ resp = Ready /\ LegacyRegister(PlainLegacy, {"ok"})
    \/ resp = Ready /\ ProductRest(ChainStatuses, {"ok"})
    \/ resp = Ready /\ QueryNext(Limits, Offsets)
    \/ Respond

SpecQuery == InitConfigured /\ [][NextQuery]_vars

\* the blob relay under every configuration
NextRelay ==
    \/ resp = Ready /\ RelayNext(ImageFiles, PutReplies)
    \/ Respond

\* any subset of the credentials configured, no products.json
InitRelay == Init /\ products_file = NoFile

SpecRelay == InitRelay /\ [][NextRelay]_vars

\* well-formed single-image requests that differ in category
TwoRequests ==
    {r \in RegisterRequests : r.image_files = <<FileA>> /\ r.attributes = "{}"}

\* two requests in flight on the event loop: a handler runs from one await to
\* the next, and the other handlers run in between
NextConcurrent ==
    \/ resp = Ready /\ PipelineNext(Handlers, TwoRequests, {"200_fid", "non200"}, {"ok"})
    \/ resp = Ready /\ LegacyRegister(OneLegacy, {"ok"})
    \/ resp = Ready /\ \E pid \in ProductIds, c \in ContractIds, s \in ChainStatuses :
                          update_product_blockchain_status(pid, c, s, "ok")
    \/ resp = Ready /\ PersonaCreate(PlainBodies, {"ok"})
    \/ resp = Ready /\ Tick
    \/ Respond

SpecConcurrent == InitFresh /\ [][NextConcurrent]_vars

\* every handler, with at most MaxRecords records in the two tables together
Room == Len(products_db) + Len(personas_db) < MaxRecords

Next ==
    \/ resp = Ready /\ Room /\ PersonaCreate(PlainBodies, WriteOutcomes)
    \/ resp = Ready /\ PersonaRest(PlainBodies, WriteOutcomes)
    \/ resp = Ready /\ Room /\ PipelineNext({"h1"}, OneRequest, {"200_fid", "non200"},
                                            WriteOutcomes)
    \/ resp = Ready /\ Room /\ LegacyRegister(OneLegacy, WriteOutcomes)
    \/ resp = Ready /\ ProductRest({"active"}, WriteOutcomes)
    \/ resp = Ready /\ QueryNext({1}, {0})
    \/ resp = Ready /\ RelayNext({FileA}, {"200_fid", "non200"})
    \/ resp = Ready /\ LifeNext(WriteOutcomes)
    \/ Respond

Spec == InitConfigured /\ [][Next]_vars

----------------------------------------------------------------------------
(* Properties *)

\* a handler step: the event loop was free and the step left a response of op
Handled(ops) == resp = Ready /\ resp'.op \in ops

UniqueKeys(d) == \A i, j \in 1..Len(d) : d[i].k = d[j].k => i = j

\* the entries of d other than k's, in order
Others(d, k) == SelectSeq(d, LAMBDA e : e.k # k)

\* C1: the Persona Store never holds two personas for one wallet; create_persona
\* for a wallet already present answers 409 and leaves the table and
\* personas.json as they were; for an absent wallet it answers 200 and adds
\* exactly that wallet's entry.
C1_PersonaUniqueness ==
    /\ [](UniqueKeys(personas_db))
    /\ [][Handled({"create_persona"}) =>
            IF DictHas(personas_db, resp'.key)
            THEN /\ resp'.status = 409
                 /\ personas_db' = personas_db
                 /\ personas_file' = personas_file
            ELSE /\ resp'.status = 200
                 /\ DictHas(personas_db', resp'.key)
                 /\ Others(personas_db', resp'.key) = personas_db]_vars

\* a second create for a wallet was refused while another persona is stored too
C1_Witness ==
    /\ resp.op = "create_persona"
    /\ resp.status = 409
    /\ Len(personas_db) = 2
    /\ personas_file.st = "ok"

\* C5: a successful update_persona keeps the stored created_at and sets
\* updated_at to the clock reading of the update.
C5_PersonaTimestamps ==
    [][Handled({"update_persona"}) /\ resp'.status = 200 =>
         /\ DictGet(personas_db', resp'.key).created_at
              = DictGet(personas_db, resp'.key).created_at
         /\ DictGet(personas_db', resp'.key).updated_at = now]_vars

\* an update made after the creation: updated_at has moved, created_at has not
C5_Witness ==
    /\ resp.op = "update_persona"
    /\ resp.status = 200
    /\ DictGet(personas_db, resp.key).created_at = 1
    /\ DictGet(personas_db, resp.key).updated_at = 2

RegisterOps == {"register_product", "register_product_blockchain"}

FailingReplies == {"non200", "timeout", "timeout_stored"}

\* an upload attempted now fails: the gateway refuses or times out, or the
\* configuration lacks what the request needs
UploadFails(reply) ==
    \/ reply \in FailingReplies
    \/ ~({"CESS_ACCOUNT", "CESS_MESSAGE", "CESS_SIGNATURE", "CESS_GATEWAY_URL"}
           \subseteq env)

\* C2: when an image upload or the metadata upload of register_product_blockchain
\* fails, the request is answered with a failure, products_db, product_counter and
\* products.json stay as they were, and the images uploaded before the failure
\* are still held by the gateway.
C2_PipelineFailure ==
    [][/\ Handled({"suspended", "register_product_blockchain"})
       /\ handlers[resp'.h].pc \in {"images", "metadata"}
       /\ UploadFails(resp'.gateway)
       => /\ resp'.op = "register_product_blockchain"
          /\ resp'.status = 500
          /\ UNCHANGED productVars
          /\ handlers'[resp'.h] = Idle
          /\ cess \subseteq cess'
          /\ \A i \in 1..Len(handlers[resp'.h].image_fids) :
                handlers[resp'.h].req.image_files[i].filename \in cess']_vars

\* the second of three image uploads failed with a product already stored
C2_Witness ==
    /\ resp.op = "register_product_blockchain"
    /\ resp.status = 500
    /\ resp.gateway \in FailingReplies
    /\ resp.submitted = 3
    /\ resp.uploaded = 1
    /\ "a.png" \in cess
    /\ "b.png" \notin cess
    /\ Len(products_db) >= 1

\* C3: a successful registration allocates an identifier that is not yet a key of
\* products_db and adds one entry without touching the others; its counter part
\* is product_counter + 1, and product_counter never decreases within a process.
C3_ProductIdUnique ==
    /\ [](UniqueKeys(products_db))
    /\ [][Handled(RegisterOps) /\ resp'.status = 200 =>
            /\ ~DictHas(products_db, resp'.product_id)
            /\ Others(products_db', resp'.product_id) = products_db
            /\ DictHas(products_db', resp'.product_id)
            /\ KeyCounter(resp'.product_id) > product_counter
            /\ product_counter' = KeyCounter(resp'.product_id)]_vars
    /\ [][resp'.op # "restart" => product_counter' >= product_counter]_vars

\* a registration whose identifier differs from a stored one in the counter only
C3_Witness ==
    /\ resp.op \in RegisterOps
    /\ resp.status = 200
    /\ \E k \in DictKeys(products_db) :
          /\ k # resp.product_id
          /\ k[3] = resp.product_id[3]

\* C4: get_product and update_product_blockchain_status on an identifier that is
\* no key of products_db, and get_persona, update_persona and delete_persona on a
\* wallet that is no key of personas_db, answer 404 and change neither table,
\* nor product_counter, nor a backing file.
C4_UnknownKey404 ==
    [][\/ /\ Handled({"get_product", "update_product_blockchain_status"})
          /\ ~DictHas(products_db, resp'.key)
       \/ /\ Handled({"get_persona", "update_persona", "delete_persona"})
          /\ ~DictHas(personas_db, resp'.key)
       => /\ resp'.status = 404
          /\ UNCHANGED <<productVars, personaVars>>]_vars

\* the 404 answers, each with records in both tables
C4_Witness ==
    /\ resp.op \in {"update_product_blockchain_status", "delete_persona"}
    /\ resp.status = 404
    /\ Len(products_db) >= 1
    /\ Len(personas_db) >= 1

\* a record passes the filters of a query (a filter left out passes everything)
Passes(p, category, seller, status) ==
    /\ category # NoFilter => "category" \in DOMAIN p /\ p.category = category
    /\ seller # NoFilter => "seller" \in DOMAIN p /\ p.seller = seller
    /\ status # NoFilter => "status" \in DOMAIN p /\ p.status = status

\* the records of products_db that pass the filters of the query just answered
PassingNow ==
    SelectSeq(DictValues(products_db),
              LAMBDA p : Passes(p, resp.filters[1], resp.filters[2], resp.filters[3]))

\* the answer holds min(L, max(0, N - O)) records, the slice [O, O + L) of the
\* passing records, and total = N
PageAsClaimed ==
    LET N == Len(PassingNow)
        count == Min(resp.limit, Max(0, N - resp.offset))
    IN /\ resp.status = 200
       /\ resp.total = N
       /\ Len(resp.products) = count
       /\ \A i \in 1..Len(resp.products) :
             /\ resp.offset + i \in 1..N
             /\ resp.products[i] = PassingNow[resp.offset + i]

\* every stored record carries the fields the category and seller filters read
FilterFieldsPresent ==
    \A i \in 1..Len(products_db) : {"category", "seller"} \subseteq DOMAIN products_db[i].v

ProductMutators ==
    {"register_product", "register_product_blockchain",
     "update_product_blockchain_status", "cleanup_products"}

PersonaMutators == {"create_persona", "update_persona", "delete_persona"}

\* the handler that answered resp went through its mutation and its save
Mutated ==
    /\ resp.op \in ProductMutators \cup PersonaMutators
    /\ resp.status = 200
    /\ resp.op = "cleanup_products" => resp.cleaned_count > 0

WriteFailed == resp.write \in {"open_failed", "dump_failed"}

\* the in-memory table shows the mutation of the handler that answered resp
MutationVisible ==
    CASE resp.op \in RegisterOps -> DictHas(products_db, resp.product_id)
      [] resp.op = "update_product_blockchain_status" ->
            "contract_product_id" \in DOMAIN DictGet(products_db, resp.key)
      [] resp.op = "cleanup_products" ->
            /\ Len(products_db) = resp.remaining_products
            /\ \A i \in 1..Len(products_db) : ~LacksRequired(products_db[i].v)
      [] resp.op = "create_persona" -> DictHas(personas_db, resp.key)
      [] resp.op = "update_persona" ->
            DictGet(personas_db, resp.key).updated_at = now
      [] resp.op = "delete_persona" -> ~DictHas(personas_db, resp.key)

\* C7: after a mutating handler whose file write did not fail, the backing file
\* holds the table as it is in memory; a failed write does not fail the request
\* and leaves the mutation in memory.
C7_PersistenceAfterMutation ==
    /\ Mutated /\ ~WriteFailed /\ resp.op \in ProductMutators
         => products_file = [st |-> "ok", data |-> products_db]
    /\ Mutated /\ ~WriteFailed /\ resp.op \in PersonaMutators
         => personas_file = [st |-> "ok", data |-> personas_db]
    /\ WriteFailed => Mutated /\ MutationVisible

\* a cleanup that removed a record and wrote the file
C7_Witness ==
    /\ resp.op = "cleanup_products"
    /\ resp.cleaned_count > 0
    /\ resp.write = "ok"
    /\ Len(products_db) >= 1

\* the claim's required credentials
ClaimedCredentials ==
    {"CESS_ACCOUNT", "CESS_MESSAGE", "CESS_SIGNATURE", "CESS_TERRITORY"}

\* C8: upload_to_cess answers 504 when the gateway call times out, 503 when the
\* gateway answers a non-success status, and 500 on any other failure.
C8_UploadStatusMapping ==
    resp.op = "upload_to_cess" /\ resp.status # 200 =>
        resp.status = IF resp.sent /\ resp.gateway \in {"timeout", "timeout_stored"}
                      THEN 504
                      ELSE IF resp.sent /\ resp.gateway = "non200" THEN 503
                      ELSE 500

\* C9: get_product_metadata answers 404 when the gateway's response is not 200,
\* the parsed body when it is 200 and JSON, the text as content otherwise.
C9_MetadataFetch ==
    resp.op = "get_product_metadata" /\ resp.url =>
        CASE resp.gateway = "non200" -> resp.status = 404
          [] resp.gateway = "200_json" ->
                resp.status = 200 /\ resp.body = [parsed |-> "body"]
          [] resp.gateway = "200_text" ->
                resp.status = 200 /\ resp.body = [content |-> "body", type |-> "text"]
          [] OTHER -> TRUE

\* C10: with any of the account, message, signature or territory settings
\* absent, upload_file_to_cess fails with the 500 "CESS credentials not
\* configured" and sends nothing to the gateway.
C10_ConfigurationCheck ==
    resp.op = "upload_to_cess" /\ ~(ClaimedCredentials \subseteq env) =>
        /\ resp.status = 500
        /\ resp.detail = "CESS credentials not configured"
        /\ ~resp.sent

\* a record with all of name, price and seller
HasAllThree(p) == "name" \in DOMAIN p /\ "price" \in DOMAIN p /\ "seller" \in DOMAIN p

AllComplete(db) == \A i \in 1..Len(db) : HasAllThree(db[i].v)

\* C11: cleanup_products removes exactly the records that lack one of name,
\* price, seller, keeps the others in place with their content, answers the
\* number removed as cleaned_count, and leaves a table on which a second
\* cleanup removes nothing (and, removing nothing, changes neither table nor
\* file)
C11_Cleanup ==
    [][Handled({"cleanup_products"}) =>
         /\ products_db' = SelectSeq(products_db, LAMBDA e : HasAllThree(e.v))
         /\ resp'.cleaned_count = Len(products_db) - Len(products_db')
         /\ resp'.remaining_products = Len(products_db')
         /\ AllComplete(products_db')
         /\ AllComplete(products_db) =>
                /\ resp'.cleaned_count = 0
                /\ products_db' = products_db
                /\ products_file' = products_file]_vars

\* a cleanup removed one record and kept another
C11_Witness ==
    /\ resp.op = "cleanup_products"
    /\ resp.cleaned_count = 1
    /\ resp.remaining_products = 1
    /\ Len(products_db) = 1

\* the identifiers the relay can return for a payload: the gateway's, or the
\* hash it falls back to
BlobIds(content) == {CessFid(content), Sha256(content)}

\* the table after the step holds the records it held, in place, and one more
OneMoreRecord ==
    /\ Len(products_db') = Len(products_db) + 1
    /\ \A i \in 1..Len(products_db) : products_db'[i] = products_db[i]

\* C12: a register_product_blockchain whose uploads all succeeded inserts
\* exactly one record, with status pending_blockchain, whose images are the
\* identifiers of the submitted images in the submitted order and which
\* carries the metadata blob's identifier, the deliverer address and the
\* commission, every earlier record staying as it was; register_product
\* inserts exactly one record with status active
C12_SuccessfulRegistration ==
    [][/\ Handled({"register_product_blockchain"}) /\ resp'.status = 200 =>
            LET req == handlers[resp'.h].req
                new == products_db'[Len(products_db')].v
            IN /\ OneMoreRecord
               /\ products_db'[Len(products_db')].k = resp'.product_id
               /\ new.status = "pending_blockchain"
               /\ Len(new.images) = Len(req.image_files)
               /\ \A i \in 1..Len(req.image_files) :
                     new.images[i] \in BlobIds(req.image_files[i].content)
               /\ new.metadata_fid \in BlobIds(MetadataJson(req, new.images, now))
               /\ new.deliverer_address = req.deliverer_address
               /\ new.creator_commission_bps = req.creator_commission_bps
       /\ Handled({"register_product"}) =>
            /\ resp'.status = 200
            /\ OneMoreRecord
            /\ products_db'[Len(products_db')].k = resp'.product_id
            /\ products_db'[Len(products_db')].v.status = "active"]_vars

\* a registration of two different images went through next to an earlier
\* record
C12_Witness ==
    /\ resp.op = "register_product_blockchain"
    /\ resp.status = 200
    /\ Len(products_db) = 2
    /\ products_db[1].v.status = "active"
    /\ products_db[2].k = resp.product_id
    /\ Len(products_db[2].v.images) >= 2
    /\ products_db[2].v.images[1] # products_db[2].v.images[2]

\* the numeric components of the keys of a table
KeyCounters(db) == {db[i].k[2] : i \in 1..Len(db)}

\* c is the largest numeric component of the keys of db (0 for no keys)
IsMaxCounter(c, db) ==
    IF db = << >> THEN c = 0
    ELSE c \in KeyCounters(db) /\ \A x \in KeyCounters(db) : x <= c

\* a stop with the shutdown flush, and the start that follows
GracefulRestart == Handled({"restart"}) /\ resp'.graceful

\* C13 as stated: after every shutdown flush and start the two tables are the
\* tables held before the shutdown
C13_AsStated ==
    [][GracefulRestart =>
          /\ products_db' = products_db
          /\ personas_db' = personas_db]_vars

\* C13: after a shutdown flush neither of whose writes failed and the start
\* that follows, the two tables are the tables held before the shutdown and
\* product_counter is the largest numeric component of the persisted product
\* keys; after any start, a table whose backing file is absent or does not
\* parse is empty
C13_RestartRoundTrip ==
    [][Handled({"restart"}) =>
          /\ resp'.graceful /\ faults' = faults =>
                /\ products_db' = products_db
                /\ personas_db' = personas_db
                /\ products_file'.data = products_db
                /\ IsMaxCounter(product_counter', products_file'.data)
          /\ products_file'.st # "ok" => products_db' = << >>
          /\ personas_file'.st # "ok" => personas_db' = << >>]_vars

\* a flushed restart brought back a product and a persona
C13_Witness ==
    /\ resp.op = "restart"
    /\ resp.graceful
    /\ faults = 0
    /\ Len(products_db) = 1
    /\ Len(personas_db) = 1
    /\ product_counter = products_db[1].k[2]
    /\ products_file.data = products_db
    /\ personas_file.data = personas_db

\* C14: every entry of the Persona Store holds, under key W, a record whose
\* wallet_address is W
C14_KeyMatchesRecord ==
    \A i \in 1..Len(personas_db) :
        personas_db[i].v.wallet_address = personas_db[i].k

\* the step is a registration that answered success
Registered == Handled(RegisterOps) /\ resp'.status = 200

\* C15: with handlers interleaved at their awaits, every successful
\* registration adds one record under a key no record had, no step drops,
\* moves or re-keys a record, and a registration leaves the other records as
\* they were; create_persona answers 200 exactly when the wallet is absent,
\* and 409 otherwise, so that of several creates for one wallet one succeeds
C15_NoLostMutation ==
    /\ [](UniqueKeys(products_db) /\ UniqueKeys(personas_db))
    /\ [][/\ Len(products_db') = Len(products_db) + (IF Registered THEN 1 ELSE 0)
          /\ \A i \in 1..Len(products_db) : products_db'[i].k = products_db[i].k
          /\ Registered =>
                /\ ~DictHas(products_db, resp'.product_id)
                /\ products_db'[Len(products_db')].k = resp'.product_id
                /\ \A i \in 1..Len(products_db) : products_db'[i] = products_db[i]
          /\ Handled({"create_persona"}) =>
                /\ resp'.status = IF DictHas(personas_db, resp'.key) THEN 409 ELSE 200
                /\ Len(personas_db') =
                      Len(personas_db) + (IF resp'.status = 200 THEN 1 ELSE 0)
                /\ \A i \in 1..Len(personas_db) : personas_db'[i] = personas_db[i]
                /\ DictHas(personas_db', resp'.key)]_vars

\* a registration completed next to a stored record while the other handler's
\* registration was suspended at its metadata upload, and a persona is stored
C15_Witness ==
    /\ resp.op = "register_product_blockchain"
    /\ resp.status = 200
    /\ resp.h = "h2"
    /\ handlers["h1"].pc = "metadata"
    /\ Len(products_db) = 2
    /\ products_db[2].k = resp.product_id
    /\ products_db[1].k[3] = products_db[2].k[3]
    /\ Len(personas_db) = 1

====
